---- MODULE Spec2Model ----
(***************************************************************************)
(* Model of src/flow_matching.py: the per-digit max-flow Sudoku solver.    *)
(* Boards are N x N grids (N = n*n), 0 meaning empty, indexed from 0 as in *)
(* the source.  The helper functions, the Dinic max-flow, the network      *)
(* builder, the decoder and the singles propagation are operators that     *)
(* compute what the code computes, in the code's order; the orchestrator   *)
(* flow_matching_sudoku is the state machine.                              *)
(***************************************************************************)
EXTENDS Integers, Sequences, FiniteSets, TLC

\* Box side.  The model fixes n = 2 (4 x 4 boards, digits 1..4).
n == 2

N == n * n

Idx == 0 .. (N - 1)

Digits == 1 .. N

Min2(a, b) == IF a <= b THEN a ELSE b

\* ----------------------------------------------------------------------
\* Helper functions
\* ----------------------------------------------------------------------

_box_index(r, c) == (r \div n) * n + (c \div n)

\* The loop of _row_duplicates over vals[i..]: seen is the set of values met,
\* dup the duplicates counted so far.  vals is a function on Idx.
RECURSIVE RowDupLoop(_, _, _, _)
RowDupLoop(vals, i, seen, dup) ==
    IF i >= N THEN dup
    ELSE IF vals[i] = 0 THEN RowDupLoop(vals, i + 1, seen, dup)
    ELSE IF vals[i] \in seen THEN RowDupLoop(vals, i + 1, seen, dup + 1)
    ELSE RowDupLoop(vals, i + 1, seen \cup {vals[i]}, dup)

\* A faulty variant: every filled cell is counted, not only the repeats.
_row_duplicates_filled(vals) == Cardinality({i \in Idx : vals[i] # 0})

\* A faulty variant: an empty cell (0) is a value like the others.
_row_duplicates_zeros(vals) == N - Cardinality({vals[i] : i \in Idx})

_row_duplicates(vals) == RowDupLoop(vals, 0, {}, 0)

RECURSIVE SumTo(_, _)
SumTo(f, i) == IF i < 0 THEN 0 ELSE f[i] + SumTo(f, i - 1)

_conflict_score(board) ==
    SumTo([r \in Idx |-> _row_duplicates(board[r])], N - 1)
  + SumTo([c \in Idx |-> _row_duplicates([r \in Idx |-> board[r][c]])], N - 1)

\* The cells of the box that holds (r, c).
BoxCells(r, c) ==
    LET br == (r \div n) * n
        bc == (c \div n) * n
    IN  (br .. (br + n - 1)) \X (bc .. (bc + n - 1))

\* A faulty variant: the digits tried run to N + 1 (an off-by-one in the range).
_legal_digits_for_cell_range(board, r, c) ==
    IF board[r][c] # 0 THEN {}
    ELSE LET used == ({board[r][j] : j \in Idx}
                      \cup {board[i][c] : i \in Idx}
                      \cup {board[p[1]][p[2]] : p \in BoxCells(r, c)}) \ {0}
         IN  {d \in 1 .. (N + 1) : d \notin used}

\* A faulty variant: the column of the cell is not looked at.
_legal_digits_for_cell_nocol(board, r, c) ==
    IF board[r][c] # 0 THEN {}
    ELSE LET used == ({board[r][j] : j \in Idx}
                      \cup {board[p[1]][p[2]] : p \in BoxCells(r, c)}) \ {0}
         IN  {d \in Digits : d \notin used}

\* A faulty variant: the box of the cell is not looked at.
_legal_digits_for_cell_nobox(board, r, c) ==
    IF board[r][c] # 0 THEN {}
    ELSE LET used == ({board[r][j] : j \in Idx}
                      \cup {board[i][c] : i \in Idx}) \ {0}
         IN  {d \in Digits : d \notin used}

_legal_digits_for_cell(board, r, c) ==
    IF board[r][c] # 0 THEN {}
    ELSE LET used == ({board[r][j] : j \in Idx}
                      \cup {board[i][c] : i \in Idx}
                      \cup {board[p[1]][p[2]] : p \in BoxCells(r, c)}) \ {0}
         IN  {d \in Digits : d \notin used}

_compute_all_candidates(board) ==
    [r \in Idx |-> [c \in Idx |-> _legal_digits_for_cell(board, r, c)]]

\* ----------------------------------------------------------------------
\* Dinic max-flow.  A network is a record [NN, adj, to]: NN nodes 0..NN-1,
\* to[e] the head of edge e (edges 0..E-1, e and e^1 paired), adj[u] the
\* sequence of the edge indices leaving u in the order they were added.
\* ----------------------------------------------------------------------

\* ei ^ 1
Pair(ei) == IF ei % 2 = 0 THEN ei + 1 ELSE ei - 1

\* A faulty variant: the search follows forward edges only, never a reverse
\* edge.
RECURSIVE BfsLayers_forward(_, _, _, _, _)
BfsLayers_forward(net, cap, level, front, d) ==
    IF front = {} THEN level
    ELSE LET nxt == {v \in 0 .. (net.NN - 1) :
                       /\ level[v] < 0
                       /\ \E u \in front : \E i \in 1 .. Len(net.adj[u]) :
                            /\ net.adj[u][i] % 2 = 0
                            /\ cap[net.adj[u][i]] > 0
                            /\ net.to[net.adj[u][i]] = v}
         IN  BfsLayers_forward(net, cap,
                       [v \in 0 .. (net.NN - 1) |-> IF v \in nxt THEN d + 1 ELSE level[v]],
                       nxt, d + 1)

\* Dinic.bfs: level[v] is the breadth-first distance from s over edges of
\* positive residual capacity, -1 when v is not reached.  front is the set
\* of nodes at distance d, level the levels given so far.
RECURSIVE BfsLayers(_, _, _, _, _)
BfsLayers(net, cap, level, front, d) ==
    IF front = {} THEN level
    ELSE LET nxt == {v \in 0 .. (net.NN - 1) :
                       /\ level[v] < 0
                       /\ \E u \in front : \E i \in 1 .. Len(net.adj[u]) :
                            /\ cap[net.adj[u][i]] > 0
                            /\ net.to[net.adj[u][i]] = v}
         IN  BfsLayers(net, cap,
                       [v \in 0 .. (net.NN - 1) |-> IF v \in nxt THEN d + 1 ELSE level[v]],
                       nxt, d + 1)

bfs(net, cap, s) ==
    BfsLayers(net, cap, [v \in 0 .. (net.NN - 1) |-> IF v = s THEN 0 ELSE -1], {s}, 0)

\* Dinic.dfs(u, t, f): the result is [pushed, cap, it].  DfsLoop is the
\* while loop of dfs from position i (0-based) of adj[u].
RECURSIVE dfs(_, _, _, _, _, _, _)
RECURSIVE DfsLoop(_, _, _, _, _, _, _, _)
\* A faulty variant: the pushed flow is taken from the edge but not given
\* to its reverse edge.
RECURSIVE DfsLoop_noreverse(_, _, _, _, _, _, _, _)
DfsLoop_noreverse(net, level, u, t, f, i, cap, it) ==
    IF i >= Len(net.adj[u]) THEN [pushed |-> 0, cap |-> cap, it |-> it]
    ELSE LET it1 == [it EXCEPT ![u] = i]
             ei  == net.adj[u][i + 1]
             v   == net.to[ei]
         IN  IF cap[ei] > 0 /\ level[v] = level[u] + 1
             THEN LET r == dfs(net, level, v, t, Min2(f, cap[ei]), cap, it1)
                  IN  IF r.pushed # 0
                      THEN [pushed |-> r.pushed,
                            cap    |-> [r.cap EXCEPT ![ei] = @ - r.pushed],
                            it     |-> r.it]
                      ELSE DfsLoop_noreverse(net, level, u, t, f, i + 1, r.cap, r.it)
             ELSE DfsLoop_noreverse(net, level, u, t, f, i + 1, cap, it1)

DfsLoop(net, level, u, t, f, i, cap, it) ==
    IF i >= Len(net.adj[u]) THEN [pushed |-> 0, cap |-> cap, it |-> it]
    ELSE LET it1 == [it EXCEPT ![u] = i]
             ei  == net.adj[u][i + 1]
             v   == net.to[ei]
         IN  IF cap[ei] > 0 /\ level[v] = level[u] + 1
             THEN LET r == dfs(net, level, v, t, Min2(f, cap[ei]), cap, it1)
                  IN  IF r.pushed # 0
                      THEN [pushed |-> r.pushed,
                            cap    |-> [r.cap EXCEPT ![ei] = @ - r.pushed,
                                                     ![Pair(ei)] = @ + r.pushed],
                            it     |-> r.it]
                      ELSE DfsLoop(net, level, u, t, f, i + 1, r.cap, r.it)
             ELSE DfsLoop(net, level, u, t, f, i + 1, cap, it1)

dfs(net, level, u, t, f, cap, it) ==
    IF u = t THEN [pushed |-> f, cap |-> cap, it |-> it]
    ELSE DfsLoop(net, level, u, t, f, it[u], cap, it)

INF == 1000000000

\* The inner "while True" of maxflow: one phase of augmentations.
RECURSIVE Blocking(_, _, _, _, _, _, _)
Blocking(net, level, s, t, cap, it, flow) ==
    LET r == dfs(net, level, s, t, INF, cap, it)
    IN  IF r.pushed = 0 THEN [flow |-> flow, cap |-> r.cap]
        ELSE Blocking(net, level, s, t, r.cap, r.it, flow + r.pushed)

\* The outer "while self.bfs(s, t)" of maxflow.
RECURSIVE MaxflowLoop(_, _, _, _, _)
MaxflowLoop(net, s, t, cap, flow) ==
    LET level == bfs(net, cap, s)
    IN  IF level[t] < 0 THEN [flow |-> flow, cap |-> cap]
        ELSE LET b == Blocking(net, level, s, t, cap,
                               [v \in 0 .. (net.NN - 1) |-> 0], flow)
             IN  MaxflowLoop(net, s, t, b.cap, b.flow)

\* A faulty variant: no phase is run, the flow is 0.
maxflow_nophase(net, cap, s, t) == [flow |-> 0, cap |-> cap]

\* Dinic.maxflow(s, t) on the network with capacities cap: [flow, cap].
maxflow(net, cap, s, t) == MaxflowLoop(net, s, t, cap, 0)

\* ----------------------------------------------------------------------
\* Per-digit flow construction
\* ----------------------------------------------------------------------

\* How many i' < i of Idx have need[i'].
CountBelow(need, i) == Cardinality({j \in Idx : j < i /\ need[j]})

\* A faulty variant: a filled cell counts as a legal cell.
legal_cell_for_k_filled(board, k, r, c) ==
    /\ ~ \E cc \in Idx : board[r][cc] = k
    /\ ~ \E rr \in Idx : board[rr][c] = k
    /\ ~ \E p \in BoxCells(r, c) : board[p[1]][p[2]] = k

\* The nested helper of _build_flow_for_digit.
legal_cell_for_k(board, k, r, c) ==
    /\ board[r][c] = 0
    /\ ~ \E cc \in Idx : board[r][cc] = k
    /\ ~ \E rr \in Idx : board[rr][c] = k
    /\ ~ \E p \in BoxCells(r, c) : board[p[1]][p[2]] = k

\* A faulty variant: the unit edges are added with capacity 2.
RECURSIVE AddUnitEdges_cap2(_, _, _, _, _)
AddUnitEdges_cap2(need, from, to, i, fwd) ==
    IF i >= N THEN fwd
    ELSE AddUnitEdges_cap2(need, from, to, i + 1,
                           IF need[i] THEN Append(fwd, <<from[i], to[i], 2>>) ELSE fwd)

\* Din.add_edge(u, v, 1) for every i of Idx with need[i], in ascending order;
\* fwd is the sequence of forward edges <<u, v, c>> added so far.
RECURSIVE AddUnitEdges(_, _, _, _, _)
AddUnitEdges(need, from, to, i, fwd) ==
    IF i >= N THEN fwd
    ELSE AddUnitEdges(need, from, to, i + 1,
                      IF need[i] THEN Append(fwd, <<from[i], to[i], 1>>) ELSE fwd)

\* The "legal placement edges" loop over the cells in row-major order from
\* cell i = r*N + c on: [fwd, dec], dec the decode_edges (edge_idx, r, c).
RECURSIVE CellEdges(_, _, _, _, _, _, _, _, _)
CellEdges(board, k, box_id, row_in, row_out, col_id, i, fwd, dec) ==
    IF i >= N * N THEN [fwd |-> fwd, dec |-> dec]
    ELSE LET r == i \div N
             c == i % N
             b == _box_index(r, c)
         IN  IF \/ ~ legal_cell_for_k(board, k, r, c)
                \/ box_id[b] = -1 \/ row_in[r] = -1 \/ col_id[c] = -1
             THEN CellEdges(board, k, box_id, row_in, row_out, col_id, i + 1, fwd, dec)
             ELSE CellEdges(board, k, box_id, row_in, row_out, col_id, i + 1,
                            Append(Append(fwd, <<box_id[b], row_in[r], 1>>),
                                   <<row_out[r], col_id[c], 1>>),
                            Append(dec, <<2 * (Len(fwd) + 1), r, c>>))

\* The Dinic object after the add_edge calls fwd[1], fwd[2], ...: edge 2(j-1)
\* is fwd[j], edge 2(j-1)+1 its reverse of capacity 0 (_add_edge_internal).
DinicOf(node_count, fwd) ==
    LET E     == 2 * Len(fwd)
        tails == [e \in 0 .. (E - 1) |->
                    IF e % 2 = 0 THEN fwd[(e \div 2) + 1][1] ELSE fwd[(e \div 2) + 1][2]]
        edges == [j \in 1 .. E |-> j - 1]
    IN  [NN  |-> node_count,
         to  |-> [e \in 0 .. (E - 1) |->
                    IF e % 2 = 0 THEN fwd[(e \div 2) + 1][2] ELSE fwd[(e \div 2) + 1][1]],
         adj |-> [u \in 0 .. (node_count - 1) |->
                    SelectSeq(edges, LAMBDA e : tails[e] = u)],
         cap |-> [e \in 0 .. (E - 1) |->
                    IF e % 2 = 0 THEN fwd[(e \div 2) + 1][3] ELSE 0]]

\* [din, S, T, decode_edges, target, fwd]
_build_flow_for_digit(board, k) ==
    LET row_has == [r \in Idx |-> \E c \in Idx : board[r][c] = k]
        col_has == [c \in Idx |-> \E r \in Idx : board[r][c] = k]
        box_has == [b \in Idx |->
                      \E r \in Idx : \E c \in Idx : board[r][c] = k /\ _box_index(r, c) = b]
        needB   == [b \in Idx |-> ~ box_has[b]]
        needR   == [r \in Idx |-> ~ row_has[r]]
        needC   == [c \in Idx |-> ~ col_has[c]]
        need_boxes == CountBelow(needB, N)
        need_rows  == CountBelow(needR, N)
        need_cols  == CountBelow(needC, N)
        S       == 0
        box_id  == [b \in Idx |-> IF box_has[b] THEN -1 ELSE 1 + CountBelow(needB, b)]
        row_in  == [r \in Idx |-> IF row_has[r] THEN -1
                                  ELSE 1 + need_boxes + 2 * CountBelow(needR, r)]
        row_out == [r \in Idx |-> IF row_has[r] THEN -1 ELSE row_in[r] + 1]
        col_id  == [c \in Idx |-> IF col_has[c] THEN -1
                                  ELSE 1 + need_boxes + 2 * need_rows + CountBelow(needC, c)]
        T       == 1 + need_boxes + 2 * need_rows + need_cols
        e1      == AddUnitEdges(needB, [b \in Idx |-> S], box_id, 0, <<>>)
        e2      == AddUnitEdges(needR, row_in, row_out, 0, e1)
        e3      == AddUnitEdges(needC, col_id, [c \in Idx |-> T], 0, e2)
        Built(ce) == [din          |-> DinicOf(T + 1, ce.fwd),
                      S            |-> S,
                      T            |-> T,
                      decode_edges |-> ce.dec,
                      target       |-> Min2(need_boxes, Min2(need_rows, need_cols)),
                      fwd          |-> ce.fwd]
    IN  Built(CellEdges(board, k, box_id, row_in, row_out, col_id, 0, e3, <<>>))

\* A faulty variant: the edges with capacity left are the ones decoded.
_extract_flow_placements_unused(cap, decode_edges) ==
    LET chosen == SelectSeq(decode_edges, LAMBDA d : cap[d[1]] # 0)
    IN  [j \in 1 .. Len(chosen) |-> <<chosen[j][2], chosen[j][3]>>]

\* A faulty variant: nothing is decoded.
_extract_flow_placements_none(cap, decode_edges) == <<>>

\* The (r, c) of the decode edges whose forward capacity is 0.
_extract_flow_placements(cap, decode_edges) ==
    LET chosen == SelectSeq(decode_edges, LAMBDA d : cap[d[1]] = 0)
    IN  [j \in 1 .. Len(chosen) |-> <<chosen[j][2], chosen[j][3]>>]

\* The flow pass of one digit up to decoding: what flow_matching_sudoku
\* computes from cur and k before it writes to cur.
FlowOf(board, k) ==
    LET Decoded(b, m) ==
            [built |-> b, ran |-> TRUE, f |-> m.flow,
             placements |-> IF m.flow > 0
                            THEN _extract_flow_placements(m.cap, b.decode_edges)
                            ELSE <<>>]
        Run(b) ==
            IF b.decode_edges = <<>>
            THEN [built |-> b, ran |-> FALSE, f |-> 0, placements |-> <<>>]
            ELSE Decoded(b, maxflow(b.din, b.din.cap, b.S, b.T))
    IN  Run(_build_flow_for_digit(board, k))

EmptyBoard == [r \in Idx |-> [c \in Idx |-> 0]]

\* ----------------------------------------------------------------------
\* Constraint propagation (singles)
\* ----------------------------------------------------------------------

\* The one element of a set of one element: next(iter(s)).
TheOne(s) == CHOOSE e \in s : TRUE

\* A faulty variant: the assignment is written with the indices transposed.
RECURSIVE NakedScan_transposed(_, _, _, _, _)
NakedScan_transposed(board, C, i, count, changed) ==
    IF i >= N * N THEN [board |-> board, C |-> C, count |-> count, changed |-> changed]
    ELSE LET r == i \div N
             c == i % N
         IN  IF board[r][c] = 0 /\ Cardinality(C[r][c]) = 1
             THEN LET b1 == [board EXCEPT ![c][r] = TheOne(C[r][c])]
                  IN  NakedScan_transposed(b1, _compute_all_candidates(b1), i + 1,
                                           count + 1, b1 # board)
             ELSE NakedScan_transposed(board, C, i + 1, count, changed)

\* A faulty variant: an assignment is made but not counted.
RECURSIVE NakedScan_nocount(_, _, _, _, _)
NakedScan_nocount(board, C, i, count, changed) ==
    IF i >= N * N THEN [board |-> board, C |-> C, count |-> count, changed |-> changed]
    ELSE LET r == i \div N
             c == i % N
         IN  IF board[r][c] = 0 /\ Cardinality(C[r][c]) = 1
             THEN LET b1 == [board EXCEPT ![r][c] = TheOne(C[r][c])]
                  IN  NakedScan_nocount(b1, _compute_all_candidates(b1), i + 1, count, TRUE)
             ELSE NakedScan_nocount(board, C, i + 1, count, changed)

\* One "for r .. for c" scan of _apply_naked_singles from cell i on.  C is
\* the candidate table, recomputed after every assignment.
RECURSIVE NakedScan(_, _, _, _, _)
NakedScan(board, C, i, count, changed) ==
    IF i >= N * N THEN [board |-> board, C |-> C, count |-> count, changed |-> changed]
    ELSE LET r == i \div N
             c == i % N
         IN  IF board[r][c] = 0 /\ Cardinality(C[r][c]) = 1
             THEN LET b1 == [board EXCEPT ![r][c] = TheOne(C[r][c])]
                  IN  NakedScan(b1, _compute_all_candidates(b1), i + 1, count + 1, TRUE)
             ELSE NakedScan(board, C, i + 1, count, changed)

RECURSIVE NakedLoop(_, _, _)
NakedLoop(board, C, count) ==
    LET Again(s) == IF s.changed THEN NakedLoop(s.board, s.C, s.count)
                    ELSE [board |-> s.board, count |-> s.count]
    IN  Again(NakedScan(board, C, 0, count, FALSE))

\* [board, count]
_apply_naked_singles(board) == NakedLoop(board, _compute_all_candidates(board), 0)

\* The "for d in range(1, N+1)" loop of one unit of _apply_hidden_singles;
\* pos was computed from the candidates at the start of the unit.
RECURSIVE HiddenDigits(_, _, _, _, _)
HiddenDigits(board, C, pos, d, placed) ==
    IF d > N THEN [board |-> board, C |-> C, placed |-> placed]
    ELSE IF Cardinality(pos[d]) = 1 /\ board[TheOne(pos[d])[1]][TheOne(pos[d])[2]] = 0
         THEN LET b1 == [board EXCEPT ![TheOne(pos[d])[1]][TheOne(pos[d])[2]] = d]
              IN  HiddenDigits(b1, _compute_all_candidates(b1), pos, d + 1, placed + 1)
         ELSE HiddenDigits(board, C, pos, d + 1, placed)

\* The units in the order _apply_hidden_singles visits them: the rows, the
\* columns, the boxes, each the set of its cells.
Units ==
    [u \in 1 .. (3 * N) |->
        IF u <= N THEN {u - 1} \X Idx
        ELSE IF u <= 2 * N THEN Idx \X {u - N - 1}
        ELSE BoxCells(((u - 2 * N - 1) \div n) * n, ((u - 2 * N - 1) % n) * n)]

RECURSIVE HiddenUnits(_, _, _, _)
HiddenUnits(board, C, u, placed) ==
    IF u > 3 * N THEN [board |-> board, placed |-> placed]
    ELSE LET pos == [d \in Digits |-> {p \in Units[u] : d \in C[p[1]][p[2]]}]
             NextUnit(h) == HiddenUnits(h.board, h.C, u + 1, h.placed)
         IN  NextUnit(HiddenDigits(board, C, pos, 1, placed))

\* A faulty variant: the hidden-singles rule places nothing.
_apply_hidden_singles_none(board) == [board |-> board, placed |-> 0]

\* [board, placed]
_apply_hidden_singles(board) == HiddenUnits(board, _compute_all_candidates(board), 1, 0)

\* A faulty variant: one pass of the two rules, not repeated.
PropagateLoop_once(board, total) ==
    LET After(a, b) == [board |-> b.board, total |-> total + a.count + b.placed]
        Hidden(a)   == After(a, _apply_hidden_singles(a.board))
    IN  Hidden(_apply_naked_singles(board))

RECURSIVE PropagateLoop(_, _)
PropagateLoop(board, total) ==
    LET After(a, b) == IF a.count + b.placed = 0 THEN [board |-> b.board, total |-> total]
                       ELSE PropagateLoop(b.board, total + a.count + b.placed)
        Hidden(a)   == After(a, _apply_hidden_singles(a.board))
    IN  Hidden(_apply_naked_singles(board))

\* [board, total]: the board _propagate leaves and the number it returns.
_propagate(board) == PropagateLoop(board, 0)

\* ----------------------------------------------------------------------
\* Main algorithm
\* ----------------------------------------------------------------------

_digit_candidate_count(board, k) ==
    Cardinality({p \in Idx \X Idx :
                   board[p[1]][p[2]] = 0 /\ k \in _legal_digits_for_cell(board, p[1], p[2])})

\* digits = list(range(1, N+1)); digits.sort(key = _digit_candidate_count):
\* the sort is stable, so equal counts keep the ascending order of the digits.
SortedDigits(board) ==
    LET key     == [k \in Digits |-> _digit_candidate_count(board, k)]
        rank(k) == Cardinality({j \in Digits :
                      key[j] < key[k] \/ (key[j] = key[k] /\ j < k)})
    IN  [p \in 1 .. N |-> CHOOSE k \in Digits : rank(k) = p - 1]

\* One iteration of the tie-breaking shuffle: i = randint(0, N-2), and
\* digits[i], digits[i+1] swapped when randint(0, 1) is 1.
SwapStep(digits, i, coin) ==
    IF coin = 1
    THEN [digits EXCEPT ![i + 1] = digits[i + 2], ![i + 2] = digits[i + 1]]
    ELSE digits

\* A faulty variant: every placement is written into column 0 of its row.
RECURSIVE ApplyPlacements_firstcol(_, _, _, _)
ApplyPlacements_firstcol(cur, k, placements, j) ==
    IF j > Len(placements) THEN cur
    ELSE LET r == placements[j][1]
         IN  ApplyPlacements_firstcol(IF cur[r][0] = 0 THEN [cur EXCEPT ![r][0] = k] ELSE cur,
                                      k, placements, j + 1)

\* for (r, c) in placements: if cur[r][c] == 0: cur[r][c] = k
RECURSIVE ApplyPlacements(_, _, _, _)
ApplyPlacements(cur, k, placements, j) ==
    IF j > Len(placements) THEN cur
    ELSE LET r == placements[j][1]
             c == placements[j][2]
         IN  ApplyPlacements(IF cur[r][c] = 0 THEN [cur EXCEPT ![r][c] = k] ELSE cur,
                             k, placements, j + 1)

\* ----------------------------------------------------------------------
\* Inputs of the model
\* ----------------------------------------------------------------------

\* A solved 4 x 4 grid, from which the dense input boards are cut.
Solved ==
    [r \in Idx |-> [c \in Idx |->
        <<<<1, 2, 3, 4>>, <<3, 4, 1, 2>>, <<2, 1, 4, 3>>, <<4, 3, 2, 1>>>>[r + 1][c + 1]]]

\* The cells (0, FreeCols[i]), i <= FreeCells, of an input board hold any
\* value of 0..N; the other cells are all empty, or all as in Solved.
FreeCols == <<0, 2, 1, 3>>

FreeCells == 2

MaxRestarts == 2

MaxRounds == 2

Boards ==
    {[r \in Idx |-> [c \in Idx |->
        IF r = 0 /\ \E i \in 1 .. FreeCells : FreeCols[i] = c
        THEN v[CHOOSE i \in 1 .. FreeCells : FreeCols[i] = c]
        ELSE IF dense THEN Solved[r][c] ELSE 0]] :
     v \in [1 .. FreeCells -> 0 .. N], dense \in BOOLEAN}

\* A second solved grid, not a relabelling of the first.
Solved2 ==
    [r \in Idx |-> [c \in Idx |->
        <<<<1, 2, 3, 4>>, <<3, 4, 2, 1>>, <<2, 1, 4, 3>>, <<4, 3, 1, 2>>>>[r + 1][c + 1]]]

\* Complete valid grids given as input: the two solved grids under every
\* relabelling of the digits.
SolvedBoards ==
    {[r \in Idx |-> [c \in Idx |-> f[g[r][c]]]] :
        f \in Permutations(Digits), g \in {Solved, Solved2}}

\* The networks maxflow is run on by itself: six nodes, source 0 and sink 5,
\* the edges of NetPairs added in this order, each with a capacity of
\* 0..MaxCap.  They hold paths of different lengths, a node reached from two
\* sides and a pair of opposite edges.
MaxCap == 2

NetPairs == <<<<0, 1>>, <<0, 2>>, <<1, 3>>, <<1, 4>>, <<2, 3>>, <<3, 5>>, <<4, 5>>, <<3, 1>>>>

Networks ==
    {DinicOf(6, [j \in 1 .. Len(NetPairs) |-> <<NetPairs[j][1], NetPairs[j][2], c[j]>>]) :
        c \in [1 .. Len(NetPairs) -> 0 .. MaxCap]}

\* The complete valid grids with one cell emptied.
OneBlankBoards ==
    {[g EXCEPT ![p[1]][p[2]] = 0] : g \in SolvedBoards, p \in Idx \X Idx}

\* The boards the calls without a seed are given: empty but for a clue 1 in
\* (0, 0), in (0, 2) or in both.  A call without a seed draws a digit order
\* at random in every round, and is bounded harder for that: these boards,
\* at most two restarts and at most two rounds.
ShuffleBoards ==
    {b \in Boards : \A r \in Idx : \A c \in Idx :
        b[r][c] = 0 \/ (b[r][c] = 1 /\ r = 0 /\ c \in {0, 2})}

\* The cells the helper functions' inputs vary in, in the order they are
\* freed: around (0, 0), one in its row only, one in its column only, one
\* in its box only, the cell itself, then one in its row and box.
HelperCells == <<<<0, 3>>, <<3, 0>>, <<1, 1>>, <<0, 0>>, <<0, 1>>, <<1, 0>>, <<2, 2>>>>

HelperFree == 4

\* The grids given to the helper functions: any value 0..N in each of the
\* first HelperFree cells of HelperCells, 0 elsewhere.  Duplicates in rows,
\* columns and boxes are among them.
HelperBoards ==
    {[r \in Idx |-> [c \in Idx |->
        IF \E i \in 1 .. HelperFree : HelperCells[i] = <<r, c>>
        THEN v[CHOOSE i \in 1 .. HelperFree : HelperCells[i] = <<r, c>>]
        ELSE 0]] :
     v \in [1 .. HelperFree -> 0 .. N]}

\* ----------------------------------------------------------------------
\* flow_matching_sudoku(board, n, restarts, seed, max_rounds)
\* ----------------------------------------------------------------------

VARIABLES
    board,        \* the caller's grid
    restarts,     \* parameter
    max_rounds,   \* parameter
    seeded,       \* seed is not None
    base,         \* deepcopy(board)
    obj,          \* the list object each of board, base, cur is bound to
    attempt,      \* the loop variable of "for attempt in range(restarts)"
    cur,          \* the working board of the attempt
    progressed,
    rounds,
    digits,       \* the digit order of the round
    di,           \* position in "for k in digits" (1-based)
    best_board,   \* <<>> is None, <<b>> the board b
    best_score,   \* <<>> is None, <<s>> the score s
    result,       \* <<>> until the call returns, then <<best_board>>
    pc,           \* "loop", "while", "for", "ret", "done"
    last,         \* history: the last flow pass made
    prevScore,    \* history: conflict score at the end of the round before
    endScore,     \* history: conflict score at the end of the last round
    finals,       \* history: [board, score] of every attempt scored so far
    dinic,        \* a Dinic object whose maxflow is run step by step
    helper        \* a helper function called on board: its arguments and return value

callvars == <<board, restarts, max_rounds, seeded, base, obj, attempt, cur, progressed,
              rounds, digits, di, best_board, best_score, result, pc, last,
              prevScore, endScore, finals>>

vars == <<callvars, dinic, helper>>

\* No Dinic object is stepped: within a call maxflow runs inside a digit pass.
NoDinic == [pc |-> "idle"]

\* No helper function is called on its own.
NoHelper == [fn |-> "none"]

params == <<board, restarts, max_rounds, seeded, base>>

\* A faulty variant: no copy is made, the name is bound to the same object.
deepcopy_alias(o, fresh) == o

\* deepcopy(x): a new object, fresh, with the contents of object o.
deepcopy(o, fresh) == fresh

\* An in-place write of the grid cur is bound to: the new contents show
\* through every name bound to the same object.
WriteCur(ids, newcur) ==
    /\ cur' = newcur
    /\ base' = IF ids.base = ids.cur THEN newcur ELSE base
    /\ board' = IF ids.board = ids.cur THEN newcur ELSE board

NoFlow == [k |-> 0, pre |-> EmptyBoard, ran |-> FALSE, f |-> 0, target |-> 0,
           placements |-> <<>>, applied |-> EmptyBoard, propagated |-> 0]

Init ==
    /\ board \in Boards \cup SolvedBoards
    /\ restarts \in 0 .. MaxRestarts
    /\ max_rounds \in 0 .. MaxRounds
    /\ seeded \in BOOLEAN
    /\ seeded \/ (board \in ShuffleBoards /\ restarts <= 2 /\ max_rounds <= 2)
    /\ base = board
    /\ obj = [board |-> 0, base |-> deepcopy(0, 1), cur |-> -1]
    /\ attempt = 0
    /\ cur = board
    /\ progressed = FALSE
    /\ rounds = 0
    /\ digits = <<>>
    /\ di = 0
    /\ best_board = <<>>
    /\ best_score = <<>>
    /\ result = <<>>
    /\ pc = "loop"
    /\ last = NoFlow
    /\ prevScore = 0
    /\ endScore = 0
    /\ finals = <<>>
    /\ dinic = NoDinic
    /\ helper = NoHelper

\* A faulty variant: the random swaps are made with a seed as well.
DigitOrders_always(brd, seed_given) ==
    {SwapStep(SwapStep(SwapStep(SortedDigits(brd), i[1], c[1]), i[2], c[2]), i[3], c[3]) :
        i \in (0 .. (N - 2)) \X (0 .. (N - 2)) \X (0 .. (N - 2)),
        c \in (0 .. 1) \X (0 .. 1) \X (0 .. 1)}

\* The digit orders a round can start with: the sorted order when a seed was
\* given, else the sorted order after the three random swap steps.
DigitOrders(brd, seed_given) ==
    LET sorted == SortedDigits(brd)
    IN  IF seed_given THEN {sorted}
        ELSE {SwapStep(SwapStep(SwapStep(sorted, i[1], c[1]), i[2], c[2]), i[3], c[3]) :
                i \in (0 .. (N - 2)) \X (0 .. (N - 2)) \X (0 .. (N - 2)),
                c \in (0 .. 1) \X (0 .. 1) \X (0 .. 1)}

\* The body of "for k in digits" for digit k: the brd and the progressed
\* flag it leaves, and the record of the pass.
FlowStep(brd, k, progressed0) ==
    LET Left(fl, ap, pr, done) ==
            [cur        |-> IF done THEN pr.board ELSE brd,
             progressed |-> IF done /\ (ap # brd \/ pr.total > 0) THEN TRUE ELSE progressed0,
             last       |-> [k |-> k, pre |-> brd, ran |-> fl.ran, f |-> fl.f,
                             target |-> fl.built.target, placements |-> fl.placements,
                             applied |-> IF done THEN ap ELSE brd,
                             propagated |-> IF done THEN pr.total ELSE 0]]
        Propagated(fl, ap) == Left(fl, ap, _propagate(ap), fl.ran /\ fl.f > 0)
        Placed(fl)         == Propagated(fl, ApplyPlacements(brd, k, fl.placements, 1))
    IN  Placed(FlowOf(brd, k))

\* A faulty variant: the body runs once before the range is looked at.
InRange_once(i, stop) == i < stop \/ i = 0

\* "for attempt in range(restarts)" has a next value: attempt counts the
\* values taken so far.
InRange(i, stop) == i < stop

\* for attempt in range(restarts): cur = deepcopy(base); _propagate(cur, n);
\* progressed = True; rounds = 0
StartAttempt ==
    /\ pc = "loop"
    /\ InRange(attempt, restarts)
    /\ obj' = [obj EXCEPT !.cur = deepcopy(obj.base, attempt + 2)]
    /\ \E pr \in {_propagate(base)} : \E sc \in {_conflict_score(pr.board)} :
          /\ WriteCur(obj', pr.board)
          /\ prevScore' = sc
          /\ endScore' = sc
    /\ progressed' = TRUE
    /\ rounds' = 0
    /\ pc' = "while"
    /\ last' = NoFlow
    /\ UNCHANGED <<dinic, helper, restarts, max_rounds, seeded, attempt, digits, di, best_board,
                   best_score, result, finals>>

\* A faulty variant: the round cap is not looked at.
WhileCond_nocap(p, r, m) == p

\* The condition of "while progressed and rounds < max_rounds".
WhileCond(p, r, m) == p /\ r < m

\* while progressed and rounds < max_rounds: progressed = False; rounds += 1;
\* the digits sorted, and lightly shuffled when no seed was given.
BeginRound ==
    /\ pc = "while"
    /\ WhileCond(progressed, rounds, max_rounds)
    /\ progressed' = FALSE
    /\ rounds' = rounds + 1
    /\ digits' \in DigitOrders(cur, seeded)
    /\ di' = 1
    /\ pc' = "for"
    /\ UNCHANGED <<dinic, helper, params, obj, attempt, cur, best_board, best_score, result, last,
                   prevScore, endScore, finals>>

\* One iteration of "for k in digits": build the network, and when it has
\* decode edges run maxflow; when f > 0 apply the placements and propagate.
FlowPass ==
    /\ pc = "for"
    /\ di <= N
    /\ \E s \in {FlowStep(cur, digits[di], progressed)} :
          /\ WriteCur(obj, s.cur)
          /\ progressed' = s.progressed
          /\ last' = s.last
    /\ di' = di + 1
    /\ UNCHANGED <<dinic, helper, restarts, max_rounds, seeded, obj, attempt, rounds, digits,
                   best_board, best_score, result, pc, prevScore, endScore, finals>>

\* End of one global round: if _propagate(cur, n) > 0: progressed = True
EndRound ==
    /\ pc = "for"
    /\ di > N
    /\ \E pr \in {_propagate(cur)} :
          /\ WriteCur(obj, pr.board)
          /\ progressed' = IF pr.total > 0 THEN TRUE ELSE progressed
          /\ endScore' = _conflict_score(pr.board)
    /\ prevScore' = endScore
    /\ pc' = "while"
    /\ UNCHANGED <<dinic, helper, restarts, max_rounds, seeded, obj, attempt, rounds, digits, di,
                   best_board, best_score, result, last, finals>>

\* A faulty variant: <= for <, a tie keeps the later attempt.
IsBetter_tie(best, score) == best = <<>> \/ score <= best[1]

\* if best_score is None or score < best_score
IsBetter(best, score) == best = <<>> \/ score < best[1]

\* A faulty variant: the loop over the attempts is never left early.
PerfectScore_never(best) == FALSE

\* if best_score == 0: break
PerfectScore(best) == best[1] = 0

\* After the while loop: score the attempt, keep it when it is the first or
\* strictly better, and break when best_score == 0.
ScoreAttempt ==
    /\ pc = "while"
    /\ ~ WhileCond(progressed, rounds, max_rounds)
    /\ \E score \in {_conflict_score(cur)} :
          /\ best_score' = IF IsBetter(best_score, score) THEN <<score>> ELSE best_score
          /\ best_board' = IF IsBetter(best_score, score) THEN <<cur>> ELSE best_board
          /\ finals' = Append(finals, [board |-> cur, score |-> score])
    /\ IF PerfectScore(best_score')
       THEN pc' = "ret" /\ attempt' = attempt
       ELSE pc' = "loop" /\ attempt' = attempt + 1
    /\ UNCHANGED <<dinic, helper, params, obj, cur, progressed, rounds, digits, di, result, last,
                   prevScore, endScore>>

\* return best_board
Return ==
    /\ pc = "ret" \/ (pc = "loop" /\ ~ InRange(attempt, restarts))
    /\ result' = <<best_board>>
    /\ pc' = "done"
    /\ UNCHANGED <<dinic, helper, params, obj, attempt, cur, progressed, rounds, digits, di,
                   best_board, best_score, last, prevScore, endScore, finals>>

Next ==
    \/ StartAttempt
    \/ BeginRound
    \/ FlowPass
    \/ EndRound
    \/ ScoreAttempt
    \/ Return

Spec == Init /\ [][Next]_vars

\* The calls on a grid with one empty cell: one attempt, with a seed, of no
\* round or one.
ForcedInit ==
    /\ board \in OneBlankBoards
    /\ restarts = 1
    /\ max_rounds \in 0 .. 1
    /\ seeded = TRUE
    /\ base = board
    /\ obj = [board |-> 0, base |-> deepcopy(0, 1), cur |-> -1]
    /\ attempt = 0
    /\ cur = board
    /\ progressed = FALSE
    /\ rounds = 0
    /\ digits = <<>>
    /\ di = 0
    /\ best_board = <<>>
    /\ best_score = <<>>
    /\ result = <<>>
    /\ pc = "loop"
    /\ last = NoFlow
    /\ prevScore = 0
    /\ endScore = 0
    /\ finals = <<>>
    /\ dinic = NoDinic
    /\ helper = NoHelper

ForcedSpec == ForcedInit /\ [][Next]_vars

\* The calls with restarts from -1 to 1, with a seed: the calls that make no
\* attempt, and next to them the calls that make one.
LowRestartsInit ==
    /\ board \in Boards \cup OneBlankBoards
    /\ restarts \in -1 .. 1
    /\ max_rounds \in 0 .. 1
    /\ seeded = TRUE
    /\ base = board
    /\ obj = [board |-> 0, base |-> deepcopy(0, 1), cur |-> -1]
    /\ attempt = 0
    /\ cur = board
    /\ progressed = FALSE
    /\ rounds = 0
    /\ digits = <<>>
    /\ di = 0
    /\ best_board = <<>>
    /\ best_score = <<>>
    /\ result = <<>>
    /\ pc = "loop"
    /\ last = NoFlow
    /\ prevScore = 0
    /\ endScore = 0
    /\ finals = <<>>
    /\ dinic = NoDinic
    /\ helper = NoHelper

LowRestartsSpec == LowRestartsInit /\ [][Next]_vars

\* Dinic.maxflow(s, t), one step per loop iteration.  dinic is the object:
\* net its edges, cap, level and it its arrays, flow the local of maxflow,
\* phases the number of bfs calls made.
DinicInit ==
    /\ \E net \in Networks :
          dinic = [pc |-> "bfs", net |-> net, s |-> 0, t |-> net.NN - 1,
                   cap |-> net.cap, level |-> <<>>, it |-> <<>>, flow |-> 0,
                   phases |-> 0]
    /\ board = EmptyBoard
    /\ restarts = 0
    /\ max_rounds = 0
    /\ seeded = TRUE
    /\ base = EmptyBoard
    /\ obj = [board |-> 0, base |-> deepcopy(0, 1), cur |-> -1]
    /\ attempt = 0
    /\ cur = EmptyBoard
    /\ progressed = FALSE
    /\ rounds = 0
    /\ digits = <<>>
    /\ di = 0
    /\ best_board = <<>>
    /\ best_score = <<>>
    /\ result = <<>>
    /\ pc = "idle"
    /\ last = NoFlow
    /\ prevScore = 0
    /\ endScore = 0
    /\ finals = <<>>
    /\ helper = NoHelper

\* while self.bfs(s, t): self.it = [0] * self.N
MaxflowBfs ==
    /\ dinic.pc = "bfs"
    /\ \E lv \in {bfs(dinic.net, dinic.cap, dinic.s)} :
          dinic' = IF lv[dinic.t] < 0
                   THEN [dinic EXCEPT !.pc = "done", !.level = lv, !.phases = @ + 1]
                   ELSE [dinic EXCEPT !.pc = "push", !.level = lv, !.phases = @ + 1,
                                      !.it = [v \in 0 .. (dinic.net.NN - 1) |-> 0]]
    /\ UNCHANGED <<callvars, helper>>

\* pushed = self.dfs(s, t, INF); if not pushed: break; flow += pushed
MaxflowPush ==
    /\ dinic.pc = "push"
    /\ \E r \in {dfs(dinic.net, dinic.level, dinic.s, dinic.t, INF, dinic.cap, dinic.it)} :
          dinic' = IF r.pushed = 0
                   THEN [dinic EXCEPT !.pc = "bfs", !.cap = r.cap, !.it = r.it]
                   ELSE [dinic EXCEPT !.cap = r.cap, !.it = r.it, !.flow = @ + r.pushed]
    /\ UNCHANGED <<callvars, helper>>

DinicNext ==
    \/ MaxflowBfs
    \/ MaxflowPush

DinicSpec == DinicInit /\ [][DinicNext]_vars

\* One call of a helper function on its own on a grid: helper is the call
\* made, with its arguments and its return value.
HelperInit ==
    /\ board \in HelperBoards
    /\ helper = NoHelper
    /\ restarts = 0
    /\ max_rounds = 0
    /\ seeded = TRUE
    /\ base = board
    /\ obj = [board |-> 0, base |-> deepcopy(0, 1), cur |-> -1]
    /\ attempt = 0
    /\ cur = board
    /\ progressed = FALSE
    /\ rounds = 0
    /\ digits = <<>>
    /\ di = 0
    /\ best_board = <<>>
    /\ best_score = <<>>
    /\ result = <<>>
    /\ pc = "idle"
    /\ last = NoFlow
    /\ prevScore = 0
    /\ endScore = 0
    /\ finals = <<>>
    /\ dinic = NoDinic

\* _legal_digits_for_cell(board, n, r, c): board is read, never assigned.
CallLegalDigits ==
    /\ pc = "idle" /\ helper = NoHelper
    /\ \E r \in Idx : \E c \in Idx :
          helper' = [fn |-> "_legal_digits_for_cell", r |-> r, c |-> c,
                     out |-> _legal_digits_for_cell(board, r, c)]
    /\ UNCHANGED <<callvars, dinic>>

\* _conflict_score(board, n): board is read, never assigned.
CallConflictScore ==
    /\ pc = "idle" /\ helper = NoHelper
    /\ helper' = [fn |-> "_conflict_score", out |-> _conflict_score(board)]
    /\ UNCHANGED <<callvars, dinic>>

\* One digit pass on a grid, the body of "for k in digits" for digit k:
\* _build_flow_for_digit, maxflow, _extract_flow_placements, the writes of
\* the placements and _propagate.  out is what the pass leaves.
CallDigitPass ==
    /\ pc = "idle" /\ helper = NoHelper
    /\ \E k \in Digits :
          helper' = [fn |-> "digit pass", k |-> k, out |-> FlowStep(board, k, FALSE)]
    /\ UNCHANGED <<callvars, dinic>>

HelperNext ==
    \/ CallLegalDigits
    \/ CallConflictScore
    \/ CallDigitPass

HelperSpec == HelperInit /\ [][HelperNext]_vars

\* ----------------------------------------------------------------------
\* Properties
\* ----------------------------------------------------------------------

\* The rows, the columns and the boxes, each as its set of cells.
RowUnits == {{r} \X Idx : r \in Idx}

ColUnits == {Idx \X {c} : c \in Idx}

BoxUnits == {BoxCells(r, c) : r \in Idx, c \in Idx}

\* No two cells of unit u hold the same nonzero value in board b.
NoDupIn(b, u) ==
    \A p \in u : \A q \in u :
        (p # q /\ b[p[1]][p[2]] # 0) => b[p[1]][p[2]] # b[q[1]][q[2]]

NoDuplicates(b) == \A u \in RowUnits \cup ColUnits \cup BoxUnits : NoDupIn(b, u)

NoBoxDuplicates(b) == \A u \in BoxUnits : NoDupIn(b, u)

Cells == Idx \X Idx

Returned == result[1][1]

ReturnedBoard == pc = "done" /\ result # <<<<>>>>

\* C1 (as claimed): the placements decoded for a digit never share a row, a
\* column or a box.
C1_DecodeSound ==
    \A i \in 1 .. Len(last.placements) : \A j \in 1 .. Len(last.placements) :
        i # j =>
          /\ last.placements[i][1] # last.placements[j][1]
          /\ last.placements[i][2] # last.placements[j][2]
          /\ _box_index(last.placements[i][1], last.placements[i][2])
               # _box_index(last.placements[j][1], last.placements[j][2])

\* C2 (as claimed): a flow pass made on a board without duplicates leaves,
\* after its placements and after the propagation that follows, a board
\* without duplicates in any row, column or box.
C2_PlacementLegal ==
    (last.k # 0 /\ NoDuplicates(last.pre)) =>
        (NoDuplicates(last.applied) /\ NoDuplicates(cur))

\* C3: every clue of the input board is unchanged in the returned board,
\* and in the working board all along.
C3_CluePreservation ==
    /\ \A p \in Cells : board[p[1]][p[2]] # 0 => cur[p[1]][p[2]] = board[p[1]][p[2]]
    /\ ReturnedBoard =>
         \A p \in Cells : board[p[1]][p[2]] # 0 => Returned[p[1]][p[2]] = board[p[1]][p[2]]

C3_Witness ==
    /\ ReturnedBoard
    /\ \E p \in Cells : board[p[1]][p[2]] # 0
    /\ \E p \in Cells : board[p[1]][p[2]] = 0 /\ Returned[p[1]][p[2]] # 0
    /\ \E i \in 1 .. Len(finals) : finals[i].board # Returned

\* C4 (as claimed): an input with two equal clues in one box is rejected:
\* no propagation assignment is made, no flow network is built and no board
\* is returned.
C4_InvalidRejected ==
    ~ NoBoxDuplicates(board) =>
        /\ cur = board
        /\ last.k = 0
        /\ pc = "done" => result = <<<<>>>>

\* C5 (as claimed): for a valid input the returned grid has every cell in
\* 1..N.  Stated for the calls whose last attempt ended by convergence, in
\* a round without progress, and whose returned board has no duplicate in
\* a box, so that no flow pass put a digit twice into a box.
C5_AllFilled ==
    (/\ ReturnedBoard /\ NoBoxDuplicates(board)
     /\ rounds >= 1 /\ ~ progressed /\ NoBoxDuplicates(Returned)) =>
        \A p \in Cells : Returned[p[1]][p[2]] \in 1 .. N

\* C5 (amended): the returned grid is N x N with every cell in 0..N; cells
\* can be left at 0.
C5_CellsInRange ==
    ReturnedBoard => Returned \in [Idx -> [Idx -> 0 .. N]]

C5_Witness ==
    /\ ReturnedBoard
    /\ NoBoxDuplicates(board) /\ NoBoxDuplicates(Returned)
    /\ \E p \in Cells : board[p[1]][p[2]] # 0
    /\ rounds >= 1 /\ ~ progressed
    /\ \E p \in Cells : Returned[p[1]][p[2]] = 0
    /\ \E p \in Cells : board[p[1]][p[2]] = 0 /\ Returned[p[1]][p[2]] # 0

\* C6: within an attempt the conflict score at the end of a round is at most
\* the score at the end of the round before (at the start of the first).
C6_MonotonicProgress == endScore <= prevScore

C6_Witness ==
    /\ pc = "while" /\ rounds = 2
    /\ endScore > 0
    /\ cur # _propagate(base).board

\* C7: the flow maxflow returns never exceeds the target of the network,
\* min(boxes, rows, columns lacking the digit).
C7_FlowValidity ==
    last.ran =>
        /\ last.f <= last.target
        /\ last.target = Min2(Cardinality({u \in BoxUnits :
                                 \A p \in u : last.pre[p[1]][p[2]] # last.k}),
                         Min2(Cardinality({u \in RowUnits :
                                 \A p \in u : last.pre[p[1]][p[2]] # last.k}),
                              Cardinality({u \in ColUnits :
                                 \A p \in u : last.pre[p[1]][p[2]] # last.k})))

C7_Witness == last.ran /\ last.f >= 2 /\ last.f < last.target

\* C8: a second _propagate right after a first makes no assignment, returns
\* 0 and leaves the board unchanged.  Checked on the boards _propagate is
\* called on, where the model first meets them: the input board, and the
\* board after a digit's placements.
C8_PropagationIdempotent ==
    \A b \in (IF pc = "loop" /\ attempt = 0 THEN {board}
              ELSE IF pc = "for" /\ di > 1 THEN {last.applied} ELSE {}) :
        \A p \in {_propagate(b)} :
            _propagate(p.board) = [board |-> p.board, total |-> 0]

C8_Witness ==
    /\ pc = "for" /\ di > 1
    /\ last.propagated >= 2
    /\ last.applied # cur

\* C9: every decoded placement targets a cell that is empty when it is
\* applied: empty before the pass and not the cell of an earlier placement
\* of the pass; so every placement is written and only empty cells are.
C9_PlacementTargetsEmpty ==
    /\ \A j \in 1 .. Len(last.placements) :
          /\ last.pre[last.placements[j][1]][last.placements[j][2]] = 0
          /\ \A i \in 1 .. (j - 1) : last.placements[i] # last.placements[j]
          /\ last.applied[last.placements[j][1]][last.placements[j][2]] = last.k
    /\ \A p \in Cells :
          last.pre[p[1]][p[2]] # 0 => last.applied[p[1]][p[2]] = last.pre[p[1]][p[2]]

C9_Witness ==
    /\ Len(last.placements) >= 2
    /\ \E p \in Cells : last.pre[p[1]][p[2]] # 0
    /\ \E p \in Cells : last.pre[p[1]][p[2]] = 0 /\ last.applied[p[1]][p[2]] = 0

\* C10: the board returned is the final board of the attempt with the
\* lowest conflict score of the attempts run, the earliest of them on a tie.
C10_BestOfAttempts ==
    (ReturnedBoard /\ finals # <<>>) =>
        \E i \in 1 .. Len(finals) :
            /\ Returned = finals[i].board
            /\ \A j \in 1 .. Len(finals) : finals[j].score >= finals[i].score
            /\ \A j \in 1 .. (i - 1) : finals[j].score > finals[i].score

C10_Witness ==
    /\ ReturnedBoard
    /\ Len(finals) = 2
    /\ finals[1].score = finals[2].score
    /\ finals[1].board # finals[2].board

\* The steps the call can still take: one per attempt start, round start,
\* digit pass, round end and scoring still ahead under the two caps, and one
\* for the return.
RoundCost == N + 2

AttemptCost == 2 + max_rounds * RoundCost

Rank ==
    IF pc = "done" THEN 0
    ELSE IF pc = "ret" THEN 1
    ELSE IF pc = "loop" THEN 1 + (restarts - attempt) * AttemptCost
    ELSE 2 + (restarts - attempt - 1) * AttemptCost
           + (max_rounds - rounds) * RoundCost
           + (IF pc = "for" THEN N + 2 - di ELSE 0)

\* C11: the call returns after a bounded number of steps: every step lowers
\* Rank, which is never negative and is 0 only once the call has returned;
\* it never starts more than restarts attempts nor more than max_rounds
\* rounds in an attempt, and after a round without progress no further round
\* of the attempt is started.  Every step evaluates the _propagate and
\* maxflow calls it makes to their end.
C11_BoundedTermination ==
    /\ [](/\ attempt <= restarts /\ Len(finals) <= restarts /\ rounds <= max_rounds
          /\ Rank >= 0 /\ (Rank = 0 <=> pc = "done")
          /\ pc \in {"loop", "while", "for", "ret", "done"})
    /\ [][(pc = "while" /\ ~ progressed) => pc' # "for"]_vars
    /\ [][Rank' < Rank]_vars

C11_Witness ==
    /\ pc = "done"
    /\ restarts >= 2 /\ Len(finals) = restarts
    /\ rounds >= 1 /\ rounds = max_rounds /\ progressed

\* C12: the caller's grid is never written, base keeps its contents, and
\* every attempt starts from the input: the board an attempt has after its
\* initial propagation is the propagated input, whatever earlier attempts
\* did to their copies.
C12_BaseReadOnly ==
    /\ [](base = board)
    /\ [][board' = board]_vars
    /\ [][(pc = "loop" /\ pc' = "while") => cur' = _propagate(board).board]_vars

C12_Witness ==
    /\ pc = "while" /\ rounds = 0 /\ attempt >= 1
    /\ Len(finals) >= 1 /\ finals[1].board # cur
    /\ \E p \in Cells : board[p[1]][p[2]] = 0 /\ finals[1].board[p[1]][p[2]] # 0

\* C13: an attempt that scores 0 is the last attempt run: once it is scored
\* the call only returns, and it returns that attempt's board.
C13_EarlyStop ==
    \A i \in 1 .. Len(finals) :
        finals[i].score = 0 =>
            /\ i = Len(finals)
            /\ pc \in {"ret", "done"}
            /\ pc = "done" => Returned = finals[i].board

C13_Witness ==
    /\ pc = "done"
    /\ restarts >= 2 /\ Len(finals) = 1 /\ finals[1].score = 0
    /\ rounds >= 1 /\ Returned = finals[1].board /\ Returned # board

\* A complete grid without a duplicate in any row, column or box.
IsSolved(b) == NoDuplicates(b) /\ \A p \in Cells : b[p[1]][p[2]] # 0

\* C14: on a solved input nothing is placed: the working board stays the
\* input, no digit's network has a decode edge so no flow is run and no
\* placement decoded, the one attempt run scores 0, and the board returned
\* equals the input.
C14_SolvedPassthrough ==
    IsSolved(board) =>
        /\ cur = board
        /\ ~ last.ran /\ last.placements = <<>> /\ last.propagated = 0
        /\ ~ progressed \/ rounds = 0
        /\ Len(finals) <= 1
        /\ \A i \in 1 .. Len(finals) : finals[i] = [board |-> board, score |-> 0]
        /\ ReturnedBoard => Returned = board

C14_Witness ==
    /\ IsSolved(board) /\ board \notin {Solved, Solved2}
    /\ ReturnedBoard /\ restarts >= 2
    /\ rounds = 1 /\ last.k # 0

\* The empty cells of b.
EmptyCells(b) == {p \in Cells : b[p[1]][p[2]] = 0}

\* The digits b holds in the row, the column and the box of cell p.
UsedAround(b, p) ==
    {b[q[1]][q[2]] : q \in ({p[1]} \X Idx) \cup (Idx \X {p[2]}) \cup BoxCells(p[1], p[2])} \ {0}

\* b has no duplicate and one empty cell, whose row, column and box hold the
\* N - 1 other digits.
OneForced(b) ==
    /\ NoDuplicates(b)
    /\ Cardinality(EmptyCells(b)) = 1
    /\ \A p \in EmptyCells(b) : Cardinality(UsedAround(b, p)) = N - 1

\* b with its empty cells filled, each with the smallest digit missing around it.
Forced(b) ==
    [r \in Idx |-> [c \in Idx |->
        IF b[r][c] # 0 THEN b[r][c]
        ELSE CHOOSE d \in Digits : d \notin UsedAround(b, <<r, c>>)]]

\* C15: on a conflict-free board with one empty cell, forced by its row,
\* column and box, one _propagate call fills the cell with the missing
\* digit and returns 1, and the board it leaves has conflict score 0; the
\* attempt works on that board from its initial propagation on.
C15_SingleForcedCell ==
    OneForced(board) =>
        /\ (pc = "loop" /\ attempt = 0) =>
              \A pr \in {_propagate(board)} :
                  /\ pr.total = 1
                  /\ pr.board = Forced(board)
                  /\ _conflict_score(pr.board) = 0
        /\ pc \in {"while", "for"} => cur = Forced(board) /\ prevScore = 0

C15_Witness ==
    /\ OneForced(board)
    /\ board[3][2] = 0
    /\ pc = "while" /\ rounds = 0
    /\ cur = Forced(board) /\ cur # board /\ IsSolved(cur)

\* The forward edges of a network, and the tail of an edge.
ForwardEdges(net) == {e \in DOMAIN net.to : e % 2 = 0}

EdgeTail(net, e) == net.to[Pair(e)]

RECURSIVE SumCap(_, _)
SumCap(cap, es) ==
    IF es = {} THEN 0
    ELSE LET e == CHOOSE x \in es : TRUE IN cap[e] + SumCap(cap, es \ {e})

\* The least capacity of a cut: of the forward edges that leave a set of
\* nodes holding s and not t.
MinCut(net, s, t) ==
    LET cuts == {SumCap(net.cap, {e \in ForwardEdges(net) :
                                    EdgeTail(net, e) \in X /\ net.to[e] \notin X}) :
                    X \in {Y \cup {s} : Y \in SUBSET ((0 .. (net.NN - 1)) \ {s, t})}}
    IN  CHOOSE m \in cuts : \A k \in cuts : m <= k

\* The nodes reached from the nodes of front over edges of positive
\* residual capacity.
RECURSIVE Reach(_, _, _)
Reach(net, cap, front) ==
    LET more == front \cup {net.to[e] : e \in {x \in DOMAIN net.to :
                                                cap[x] > 0 /\ EdgeTail(net, x) \in front}}
    IN  IF more = front THEN front ELSE Reach(net, cap, more)

\* The flow on forward edge e is what its reverse edge has gained.
FlowOn(d, e) == d.cap[Pair(e)] - d.net.cap[Pair(e)]

\* C16: when maxflow returns, the value it returns is the minimum cut
\* capacity of the network, it is the net flow out of the source of a flow
\* that respects every capacity and is conserved at every inner node, and
\* the sink cannot be reached from the source over edges of positive
\* residual capacity; the maxflow operator used within a digit pass computes
\* the same value and capacities.
C16_MaxflowIsMax ==
    dinic.pc = "done" =>
        /\ dinic.flow = MinCut(dinic.net, dinic.s, dinic.t)
        /\ dinic.t \notin Reach(dinic.net, dinic.cap, {dinic.s})
        /\ \A e \in ForwardEdges(dinic.net) :
              FlowOn(dinic, e) >= 0 /\ FlowOn(dinic, e) <= dinic.net.cap[e]
        /\ \A v \in 0 .. (dinic.net.NN - 1) :
              SumCap([e \in DOMAIN dinic.net.to |-> FlowOn(dinic, e)],
                     {e \in ForwardEdges(dinic.net) : EdgeTail(dinic.net, e) = v})
              - SumCap([e \in DOMAIN dinic.net.to |-> FlowOn(dinic, e)],
                       {e \in ForwardEdges(dinic.net) : dinic.net.to[e] = v})
              = IF v = dinic.s THEN dinic.flow
                ELSE IF v = dinic.t THEN - dinic.flow ELSE 0
        /\ maxflow(dinic.net, dinic.net.cap, dinic.s, dinic.t)
              = [flow |-> dinic.flow, cap |-> dinic.cap]

C16_Witness ==
    /\ dinic.pc = "done"
    /\ dinic.flow >= 2 /\ dinic.phases >= 3
    /\ dinic.net.cap[14] = 0
    /\ \E e \in ForwardEdges(dinic.net) :
          FlowOn(dinic, e) > 0 /\ FlowOn(dinic, e) < dinic.net.cap[e]

\* C17: all through maxflow every forward edge e has its reverse edge
\* e ^ 1, running the other way; neither capacity is negative, and the two
\* sum to the capacity e was added with.
C17_ResidualPairing ==
    dinic.pc # "idle" =>
        \A e \in ForwardEdges(dinic.net) :
            /\ Pair(e) \in DOMAIN dinic.net.to /\ Pair(e) \in DOMAIN dinic.cap
            /\ dinic.net.to[e] = NetPairs[(e \div 2) + 1][2]
            /\ dinic.net.to[Pair(e)] = NetPairs[(e \div 2) + 1][1]
            /\ dinic.cap[e] >= 0 /\ dinic.cap[Pair(e)] >= 0
            /\ dinic.cap[e] + dinic.cap[Pair(e)] = dinic.net.cap[e]
            /\ dinic.net.cap[Pair(e)] = 0

C17_Witness ==
    /\ dinic.pc = "push" /\ dinic.phases >= 2 /\ dinic.flow >= 2
    /\ \E e \in ForwardEdges(dinic.net) : dinic.cap[e] > 0 /\ dinic.cap[Pair(e)] > 0
    /\ \E e \in ForwardEdges(dinic.net) : dinic.cap[e] = 0 /\ dinic.cap[Pair(e)] > 0

\* C18: the placements decoded after a maxflow are pairwise distinct cells,
\* and there are as many of them as the flow maxflow returned.
C18_DecodeCount ==
    last.ran =>
        /\ Len(last.placements) = last.f
        /\ \A i \in 1 .. Len(last.placements) : \A j \in 1 .. Len(last.placements) :
              i # j => last.placements[i] # last.placements[j]

C18_Witness ==
    /\ last.ran /\ last.f = 3 /\ Len(last.placements) = 3
    /\ \E p \in Cells : last.pre[p[1]][p[2]] = last.k
    /\ Cardinality({p \in Cells : legal_cell_for_k(last.pre, last.k, p[1], p[2])}) > 3

\* C19 (as claimed): the digits of a round are processed in ascending order
\* of their candidate counts on the board the round starts with, with a
\* seed and without.
C19_ScarcestFirst ==
    (pc = "for" /\ di = 1) =>
        \A i \in 1 .. N : \A j \in 1 .. N :
            i < j => _digit_candidate_count(cur, digits[i])
                       <= _digit_candidate_count(cur, digits[j])

\* The candidates of cell p in b: none for a filled cell, else the digits
\* absent from its row, its column and its box.
Cand(b, p) == IF b[p[1]][p[2]] # 0 THEN {} ELSE Digits \ UsedAround(b, p)

\* b has no naked single and no hidden single.
Fixpoint(b) ==
    /\ \A p \in Cells : Cardinality(Cand(b, p)) # 1
    /\ \A u \in RowUnits \cup ColUnits \cup BoxUnits : \A d \in Digits :
          Cardinality({p \in u : d \in Cand(b, p)}) # 1

\* b comes from a by writes to empty cells only, each of a digit absent at
\* that moment from the row, the column and the box of its cell: the filled
\* cells of a are kept, and two cells of a unit that hold the same digit in
\* b were both filled in a.
LegalWrites(a, b) ==
    /\ \A p \in Cells : a[p[1]][p[2]] # 0 => b[p[1]][p[2]] = a[p[1]][p[2]]
    /\ \A u \in RowUnits \cup ColUnits \cup BoxUnits : \A p \in u : \A q \in u :
          (p # q /\ b[p[1]][p[2]] # 0 /\ b[p[1]][p[2]] = b[q[1]][q[2]])
              => (a[p[1]][p[2]] # 0 /\ a[q[1]][q[2]] # 0)

\* C20: the board _propagate leaves has no naked and no hidden single, and
\* what _propagate wrote are legal writes to empty cells.  The working board
\* is the result of a _propagate call from the start of the first attempt
\* on (a call with restarts = 0 starts none): of the initial one, of the one
\* after a digit's placements, of the one that ends a round.
C20_PropagationFixpoint ==
    /\ (pc \in {"while", "for", "ret"} \/ Len(finals) >= 1) => Fixpoint(cur)
    /\ (pc = "while" /\ rounds = 0) => LegalWrites(board, cur)
    /\ (pc = "for" /\ last.k # 0) => LegalWrites(last.applied, cur)

C20_Witness ==
    /\ pc = "for" /\ last.propagated >= 2
    /\ ~ Fixpoint(last.applied)
    /\ \A p \in Cells : Cardinality(Cand(last.applied, p)) # 1
    /\ \E p \in Cells : cur[p[1]][p[2]] = 0

\* C21: _legal_digits_for_cell returns the empty set for a filled cell, and
\* for an empty cell exactly the digits of 1..N that occur neither in the
\* row of the cell, nor in its column, nor in its box; the board is the
\* same after the call.
C21_CandidateComputation ==
    /\ [](helper.fn = "_legal_digits_for_cell" =>
            /\ helper.out \subseteq 1 .. N
            /\ board[helper.r][helper.c] # 0 => helper.out = {}
            /\ board[helper.r][helper.c] = 0 =>
                  \A d \in 1 .. N :
                     d \in helper.out <=>
                        /\ \A j \in Idx : board[helper.r][j] # d
                        /\ \A i \in Idx : board[i][helper.c] # d
                        /\ \A p \in Cells :
                              _box_index(p[1], p[2]) = _box_index(helper.r, helper.c)
                                 => board[p[1]][p[2]] # d)
    /\ [][helper'.fn = "_legal_digits_for_cell" => board' = board]_vars

\* An empty cell with one digit shut out by its row only, one by its column
\* only, one by its box only, and one digit left.
C21_Witness ==
    /\ helper.fn = "_legal_digits_for_cell"
    /\ helper.r = 0 /\ helper.c = 0
    /\ board[0][0] = 0
    /\ board[0][3] = 1 /\ board[3][0] = 2 /\ board[1][1] = 3
    /\ helper.out = {4}

\* The filled cells of line u in b beyond one per distinct value.
LineExcess(b, u) ==
    Cardinality({p \in u : b[p[1]][p[2]] # 0})
  - Cardinality({b[p[1]][p[2]] : p \in u} \ {0})

RECURSIVE SumExcess(_, _)
SumExcess(b, us) ==
    IF us = {} THEN 0
    ELSE LET u == CHOOSE x \in us : TRUE
         IN  LineExcess(b, u) + SumExcess(b, us \ {u})

\* C22: _conflict_score is the sum over the N rows and the N columns of the
\* number of filled cells of the line minus the number of distinct values
\* in them: an empty cell is never a duplicate, a box adds nothing.
C22_ConflictScore ==
    helper.fn = "_conflict_score" =>
        helper.out = SumExcess(board, RowUnits \cup ColUnits)

\* Row 0 holds a digit twice around an empty cell, column 0 holds it twice,
\* and box 0 twice in cells that share neither a row nor a column.
C22_Witness ==
    /\ helper.fn = "_conflict_score"
    /\ board[0][0] = 1 /\ board[0][3] = 1 /\ board[0][2] = 0
    /\ board[3][0] = 1 /\ board[1][1] = 1
    /\ helper.out = 2

\* The row plus column conflict score of b, counted line by line.
LineScore(b) == SumExcess(b, RowUnits \cup ColUnits)

\* C23: no assignment of an attempt changes the row plus column conflict
\* score: the working board scores what the input scores after the initial
\* propagation, after the placements of a digit, after the propagation that
\* follows them and at the end of a round; so every attempt ends with the
\* score of the input, and no attempt scores lower than the first.
C23_ScoreInvariant ==
    /\ LineScore(cur) = LineScore(board)
    /\ last.k # 0 => /\ LineScore(last.pre) = LineScore(board)
                     /\ LineScore(last.applied) = LineScore(board)
    /\ \A i \in 1 .. Len(finals) :
          /\ finals[i].score = LineScore(board)
          /\ finals[i].score = _conflict_score(board)
          /\ finals[i].score >= finals[1].score
    /\ best_score # <<>> => best_score[1] = LineScore(board)

\* A second attempt was scored on an input with a duplicate in a line, after
\* digit passes, and it filled a cell that is empty in the input.
C23_Witness ==
    /\ Len(finals) >= 2
    /\ LineScore(board) >= 1
    /\ finals[2].board # board
    /\ last.k # 0
    /\ \E p \in Cells : board[p[1]][p[2]] = 0 /\ finals[2].board[p[1]][p[2]] # 0

\* No empty cell of b has a candidate digit.
Stuck(b) == \A p \in Cells : Cand(b, p) = {}

\* C24: when the rounds of an attempt stop because a round made no progress,
\* no empty cell of the working board has a legal digit, and no digit has a
\* legal placement cell; the board is then the one the attempt is scored on.
C24_ConvergedIsStuck ==
    /\ (pc = "while" /\ ~ progressed) =>
          /\ Stuck(cur)
          /\ \A k \in Digits :
                /\ _build_flow_for_digit(cur, k).decode_edges = <<>>
                /\ _digit_candidate_count(cur, k) = 0
    /\ (pc \in {"loop", "ret", "done"} /\ Len(finals) >= 1 /\ ~ progressed) =>
          /\ Stuck(cur)
          /\ finals[Len(finals)].board = cur

\* The rounds stopped below max_rounds, after a round in which no digit had
\* a decode edge, on a board that still has an empty cell.
C24_Witness ==
    /\ pc = "while" /\ ~ progressed
    /\ rounds = 1 /\ rounds < max_rounds
    /\ last.k # 0 /\ ~ last.ran
    /\ \E p \in Cells : cur[p[1]][p[2]] = 0

\* The cells where digit k is a candidate in b.
LegalCells(b, k) == {p \in Cells : k \in Cand(b, p)}

\* What C25 says of the record l of one digit pass.
PassPlaces(l) ==
    /\ l.ran <=> LegalCells(l.pre, l.k) # {}
    /\ l.ran =>
          /\ l.f >= 1
          /\ Len(l.placements) >= 1
          /\ \E p \in LegalCells(l.pre, l.k) : l.applied[p[1]][p[2]] = l.k

\* C25: the network of digit k has a decode edge exactly when k has a legal
\* cell, and then maxflow returns at least 1 and the pass writes at least
\* one k into an empty cell: for a digit pass made on any grid, and for
\* the digit passes of a call.
C25_NonEmptyNetworkFlows ==
    /\ helper.fn = "digit pass" =>
          /\ PassPlaces(helper.out.last)
          /\ helper.out.progressed <=> helper.out.last.ran
    /\ last.k # 0 => PassPlaces(last)

\* A pass on a grid where the digit has exactly one legal cell: one decode
\* edge, a flow of 1, one placement.
C25_Witness ==
    /\ helper.fn = "digit pass"
    /\ Cardinality(LegalCells(board, helper.k)) = 1
    /\ helper.out.last.ran /\ helper.out.last.f = 1
    /\ Len(helper.out.last.placements) = 1
    /\ helper.out.last.target >= 1

\* The digit passes of one round from position i on, in the order ds, as
\* a function: the board and the progressed flag they leave.
RECURSIVE DigitLoop(_, _, _, _)
DigitLoop(b, ds, i, p) ==
    IF i > N THEN [cur |-> b, progressed |-> p]
    ELSE LET Go(s) == DigitLoop(s.cur, ds, i + 1, s.progressed)
         IN  Go(FlowStep(b, ds[i], p))

\* The rounds of one attempt from board b on when the digits of every round
\* are taken in sorted order: the board the attempt ends with.
RECURSIVE RoundLoop(_, _, _, _)
RoundLoop(b, p, r, m) ==
    IF ~ WhileCond(p, r, m) THEN b
    ELSE LET End(d, pr) == RoundLoop(pr.board, d.progressed \/ pr.total > 0, r + 1, m)
             Passes(d)  == End(d, _propagate(d.cur))
         IN  Passes(DigitLoop(b, SortedDigits(b), 1, FALSE))

\* The final board of an attempt on input b with max_rounds m in which no
\* random choice is made.
SeededAttempt(b, m) == RoundLoop(_propagate(b).board, TRUE, 0, m)

\* C26: with a seed no random choice is made: every round takes the digits
\* in sorted order, every attempt of the call ends with the same board and
\* score, and the board returned is a function of the input board and
\* max_rounds alone, the same for any restarts >= 1.
C26_SeededDeterminism ==
    /\ [](seeded =>
            /\ \A i \in 1 .. Len(finals) : finals[i] = finals[1]
            /\ pc = "done" /\ Len(finals) >= 1 =>
                  /\ finals[1].board = SeededAttempt(board, max_rounds)
                  /\ ReturnedBoard /\ Returned = finals[1].board)
    /\ [][(seeded /\ pc = "while" /\ pc' = "for") => digits' = SortedDigits(cur)]_vars

\* A seeded call that made two attempts of two rounds each, whose digit
\* passes filled cells, and both ended alike.
C26_Witness ==
    /\ seeded /\ pc = "done"
    /\ Len(finals) = 2 /\ finals[1] = finals[2]
    /\ finals[1].board # _propagate(board).board
    /\ rounds >= 2
    /\ \E p \in Cells : board[p[1]][p[2]] = 0 /\ Returned[p[1]][p[2]] # 0

\* C27: a board is returned only after at least one attempt; with
\* restarts <= 0 the call makes no attempt, so no propagation and no flow
\* pass, writes nothing, and returns None.
C27_NoAttemptNoBoard ==
    /\ [](/\ ReturnedBoard => (restarts >= 1 /\ Len(finals) >= 1)
          /\ restarts <= 0 =>
                /\ pc \in {"loop", "done"}
                /\ attempt = 0 /\ finals = <<>>
                /\ cur = board /\ base = board
                /\ rounds = 0 /\ ~ progressed /\ digits = <<>>
                /\ last = NoFlow
                /\ best_board = <<>> /\ best_score = <<>>
                /\ pc = "done" => result = <<<<>>>>)
    /\ [][restarts <= 0 => (pc = "loop" /\ pc' = "done")]_vars

\* A call with a negative restarts returned None on a grid that one
\* propagation would have completed.
C27_Witness ==
    /\ restarts < 0 /\ pc = "done" /\ result = <<<<>>>>
    /\ IsSolved(_propagate(board).board)
    /\ board # _propagate(board).board

====
